---- MODULE Spec2Model ----
(***************************************************************************)
(* Radix-tree symbol table (symtab.c, SYMTAB_IMPL_TREE).                   *)
(*                                                                         *)
(* The heap is a function from node addresses to SymEntry records; NULL is *)
(* address 0.  Strings are sequences over Alphabet (the terminating NUL is *)
(* the end of the sequence).  Every while loop of the source is a          *)
(* RECURSIVE operator whose recursion step is one loop iteration.          *)
(***************************************************************************)
EXTENDS Integers, Sequences, FiniteSets, TLC

VARIABLES heap, alloc, amap, last, fault

vars == <<heap, alloc, amap, last, fault>>

----------------------------------------------------------------------------
(* Bounds of the model *)

MaxLen == 3

MaxNodes == 5

MaxVal == 2

Alphabet == {"a", "b"}

----------------------------------------------------------------------------
(* Strings *)

RECURSIVE StringsOfLen(_)
StringsOfLen(n) ==
    IF n = 0 THEN {<<>>}
    ELSE {Append(s, c) : s \in StringsOfLen(n - 1), c \in Alphabet}

Keys == UNION {StringsOfLen(n) : n \in 0..MaxLen}

NonEmptyKeys == Keys \ {<<>>}

Values == 1..MaxVal

Min(a, b) == IF a < b THEN a ELSE b

Take(s, n) == SubSeq(s, 1, n)

Drop(s, n) == SubSeq(s, n + 1, Len(s))

IsPrefix(p, s) == Len(p) <= Len(s) /\ Take(s, Len(p)) = p

----------------------------------------------------------------------------
(* Memory *)

NULL == 0

Root == 1

RootValue == 42

Nodes == 1..MaxNodes

SymEntry == [Next |-> NULL, Children |-> NULL, Piece |-> <<>>, Value |-> 0]

\* malloc: the lowest free address
malloc(al) == CHOOSE n \in Nodes \ al : \A o \in Nodes \ al : n <= o

\* a comparison that accepts a label only as a whole: a key that shares part
\* of a label counts as sharing nothing
MatchLenWholeLabel(edge, search) ==
    IF IsPrefix(edge, search) THEN Len(edge) ELSE 0

\* the inner while loop: the number of characters it steps over (MatchFrom is
\* the loop at offset n)
RECURSIVE MatchFrom(_, _, _)
MatchFrom(edge, search, n) ==
    IF n < Len(edge) /\ n < Len(search) /\ edge[n + 1] = search[n + 1]
    THEN MatchFrom(edge, search, n + 1)
    ELSE n

MatchLen(edge, search) == MatchFrom(edge, search, 0)

\* Piece and Value of the new node are not initialised; every caller sets
\* both before it reads them
_entry_new(m) ==
    LET n == malloc(m.alloc)
    IN  [heap  |-> [m.heap EXCEPT ![n].Next = NULL, ![n].Children = NULL],
         alloc |-> m.alloc \cup {n},
         n     |-> n]

\* the content of freed memory is indeterminate; the model clears it
\* what a block shows after free() was called on it while it was not allocated
DoubleFreed == [Next |-> NULL, Children |-> NULL, Piece |-> <<>>, Value |-> -1]

_entry_free(m, entry) ==
    [heap  |-> [m.heap EXCEPT ![entry] =
                   IF entry \in m.alloc THEN SymEntry ELSE DoubleFreed],
     alloc |-> m.alloc \ {entry}]

_is_leaf(h, entry) == h[entry].Value # 0

\* a read of the value that always finds none
_get_value_zero(h, entry) == 0

_get_value(h, entry) == h[entry].Value

_set_leaf_value(h, entry, value) == [h EXCEPT ![entry].Value = value]

_is_last(h, entry) == h[entry].Next = NULL

_has_children(h, entry) == h[entry].Children # NULL

_has_exactly_one_child(h, entry) ==
    _has_children(h, entry) /\ _is_last(h, h[entry].Children)

_new_single_leaf(m, parent, label, value) ==
    LET e == _entry_new(m)
        h1 == [e.heap EXCEPT ![e.n].Piece = label]
        h2 == _set_leaf_value(h1, e.n, value)
    IN  [heap |-> [h2 EXCEPT ![parent].Children = e.n], alloc |-> e.alloc]

\* a new last sibling whose Next points back at its predecessor
_new_last_leaf_back_link(m, prev, label, value) ==
    LET e == _entry_new(m)
        h1 == [e.heap EXCEPT ![e.n].Piece = label, ![e.n].Next = prev]
        h2 == _set_leaf_value(h1, e.n, value)
    IN  [heap |-> [h2 EXCEPT ![prev].Next = e.n], alloc |-> e.alloc]

_new_last_leaf(m, prev, label, value) ==
    LET e == _entry_new(m)
        h1 == [e.heap EXCEPT ![e.n].Piece = label]
        h2 == _set_leaf_value(h1, e.n, value)
    IN  [heap |-> [h2 EXCEPT ![prev].Next = e.n], alloc |-> e.alloc]

\* a split one character too early
_entry_split_before(m, entry, pos) ==
    LET e == _entry_new(m)
        second == e.n
        old == m.heap[entry]
    IN  [heap   |-> [e.heap EXCEPT ![second].Value = old.Value,
                                   ![second].Piece = Drop(old.Piece, pos - 1),
                                   ![second].Children = old.Children,
                                   ![entry].Children = second,
                                   ![entry].Piece = Take(old.Piece, pos - 1)],
         alloc  |-> e.alloc,
         second |-> second]

\* pos is the offset of the split point in entry's label
_entry_split(m, entry, pos) ==
    LET e == _entry_new(m)
        second == e.n
        old == m.heap[entry]
    IN  [heap   |-> [e.heap EXCEPT ![second].Value = old.Value,
                                   ![second].Piece = Drop(old.Piece, pos),
                                   ![second].Children = old.Children,
                                   ![entry].Children = second,
                                   ![entry].Piece = Take(old.Piece, pos)],
         alloc  |-> e.alloc,
         second |-> second]

_entry_split_for_child(m, entry, pos, label, value) ==
    LET s == _entry_split(m, entry, pos)
        h1 == [s.heap EXCEPT ![entry].Value = 0]
        e == _entry_new([heap |-> h1, alloc |-> s.alloc])
        h2 == [e.heap EXCEPT ![e.n].Piece = label]
        h3 == _set_leaf_value(h2, e.n, value)
    IN  [heap |-> [h3 EXCEPT ![s.second].Next = e.n], alloc |-> e.alloc]

_entry_split_for_prefix(m, entry, pos, value) ==
    LET s == _entry_split(m, entry, pos)
    IN  [heap |-> _set_leaf_value(s.heap, entry, value), alloc |-> s.alloc]

\* a merge that does not adopt the child's value
_entry_merge_keep_value(m, parent, child) ==
    LET c == m.heap[child]
        h1 == [m.heap EXCEPT ![parent].Children = c.Children,
                             ![parent].Piece = m.heap[parent].Piece \o c.Piece]
    IN  _entry_free([heap |-> h1, alloc |-> m.alloc], child)

_entry_merge(m, parent, child) ==
    LET c == m.heap[child]
        h1 == [m.heap EXCEPT ![parent].Value = c.Value,
                             ![parent].Children = c.Children,
                             ![parent].Piece = m.heap[parent].Piece \o c.Piece]
    IN  _entry_free([heap |-> h1, alloc |-> m.alloc], child)

\* a removal that leaves the value of a node with children in place
_entry_remove_no_clear(m, entry, parent, prev) ==
    LET m1 == IF _has_children(m.heap, entry)
              THEN IF _is_last(m.heap, m.heap[entry].Children)
                   THEN _entry_merge(m, entry, m.heap[entry].Children)
                   ELSE m
              ELSE LET h1 == IF prev # NULL
                             THEN [m.heap EXCEPT ![prev].Next = m.heap[entry].Next]
                             ELSE [m.heap EXCEPT ![parent].Children = m.heap[entry].Next]
                   IN  _entry_free([heap |-> h1, alloc |-> m.alloc], entry)
    IN  IF ~_is_leaf(m1.heap, parent) /\ _has_exactly_one_child(m1.heap, parent)
        THEN _entry_merge(m1, parent, m1.heap[parent].Children)
        ELSE m1

\* a removal without the merge of the parent (lines 160-163 left out)
_entry_remove_no_parent_merge(m, entry, parent, prev) ==
    IF _has_children(m.heap, entry)
    THEN LET h0 == [m.heap EXCEPT ![entry].Value = 0]
             m0 == [heap |-> h0, alloc |-> m.alloc]
         IN  IF _is_last(h0, h0[entry].Children)
             THEN _entry_merge(m0, entry, h0[entry].Children)
             ELSE m0
    ELSE LET h1 == IF prev # NULL
                   THEN [m.heap EXCEPT ![prev].Next = m.heap[entry].Next]
                   ELSE [m.heap EXCEPT ![parent].Children = m.heap[entry].Next]
         IN  _entry_free([heap |-> h1, alloc |-> m.alloc], entry)

\* a removal that only clears the value and leaves the node where it is
_entry_remove_keep_node(m, entry, parent, prev) ==
    [heap |-> [m.heap EXCEPT ![entry].Value = 0], alloc |-> m.alloc]

\* a removal whose second merge does not ask whether the parent has a value
_entry_remove_merge_any_parent(m, entry, parent, prev) ==
    LET m1 == IF _has_children(m.heap, entry)
              THEN LET h0 == [m.heap EXCEPT ![entry].Value = 0]
                       m0 == [heap |-> h0, alloc |-> m.alloc]
                   IN  IF _is_last(h0, h0[entry].Children)
                       THEN _entry_merge(m0, entry, h0[entry].Children)
                       ELSE m0
              ELSE LET h1 == IF prev # NULL
                             THEN [m.heap EXCEPT ![prev].Next = m.heap[entry].Next]
                             ELSE [m.heap EXCEPT ![parent].Children = m.heap[entry].Next]
                   IN  _entry_free([heap |-> h1, alloc |-> m.alloc], entry)
    IN  IF _has_exactly_one_child(m1.heap, parent)
        THEN _entry_merge(m1, parent, m1.heap[parent].Children)
        ELSE m1

\* a removal that unlinks at the head of the chain whatever prev is
_entry_remove_ignore_prev(m, entry, parent, prev) ==
    LET m1 == IF _has_children(m.heap, entry)
              THEN LET h0 == [m.heap EXCEPT ![entry].Value = 0]
                       m0 == [heap |-> h0, alloc |-> m.alloc]
                   IN  IF _is_last(h0, h0[entry].Children)
                       THEN _entry_merge(m0, entry, h0[entry].Children)
                       ELSE m0
              ELSE _entry_free([heap  |-> [m.heap EXCEPT ![parent].Children =
                                              m.heap[entry].Next],
                                alloc |-> m.alloc], entry)
    IN  IF ~_is_leaf(m1.heap, parent) /\ _has_exactly_one_child(m1.heap, parent)
        THEN _entry_merge(m1, parent, m1.heap[parent].Children)
        ELSE m1

\* parent is not NULL here; symtab_remove handles the call with parent = NULL
_entry_remove(m, entry, parent, prev) ==
    LET m1 == IF _has_children(m.heap, entry)
              THEN LET h0 == [m.heap EXCEPT ![entry].Value = 0]
                       m0 == [heap |-> h0, alloc |-> m.alloc]
                   IN  IF _is_last(h0, h0[entry].Children)
                       THEN _entry_merge(m0, entry, h0[entry].Children)
                       ELSE m0
              ELSE LET h1 == IF prev # NULL
                             THEN [m.heap EXCEPT ![prev].Next = m.heap[entry].Next]
                             ELSE [m.heap EXCEPT ![parent].Children = m.heap[entry].Next]
                   IN  _entry_free([heap |-> h1, alloc |-> m.alloc], entry)
    IN  IF ~_is_leaf(m1.heap, parent) /\ _has_exactly_one_child(m1.heap, parent)
        THEN _entry_merge(m1, parent, m1.heap[parent].Children)
        ELSE m1

\* _entry_remove(entry, NULL, NULL): parent is dereferenced at line 154 (entry
\* without children) or at line 160 (after entry->Value = 0; the merge of a
\* single child before it reallocs the root's string literal).  The call does
\* not return; the memory it leaves is any of the states before the fault.
_entry_remove_null_parent(m, entry) ==
    IF _has_children(m.heap, entry)
    THEN {m, [heap |-> [m.heap EXCEPT ![entry].Value = 0], alloc |-> m.alloc]}
    ELSE {m}

----------------------------------------------------------------------------
(* Public operations.  Each returns the memory after the call and the      *)
(* value returned.                                                         *)

symtab_create ==
    [heap  |-> [n \in Nodes |-> IF n = Root
                                THEN [Next |-> NULL, Children |-> NULL,
                                      Piece |-> <<>>, Value |-> RootValue]
                                ELSE SymEntry],
     alloc |-> {Root}]

RECURSIVE symtab_put(_, _, _, _)
symtab_put(m, entry, ident, value) ==
    IF entry = NULL
    THEN [heap |-> m.heap, alloc |-> m.alloc, val |-> 0]
    ELSE
    LET edge == m.heap[entry].Piece
        n == MatchLen(edge, ident)
        search == Drop(ident, n)
    IN  IF n = Len(edge)
        THEN IF search = <<>>
             THEN [heap  |-> _set_leaf_value(m.heap, entry, value),
                   alloc |-> m.alloc,
                   val   |-> _get_value(m.heap, entry)]
             ELSE IF ~_has_children(m.heap, entry)
             THEN LET r == _new_single_leaf(m, entry, search, value)
                  IN  [heap |-> r.heap, alloc |-> r.alloc, val |-> 0]
             ELSE symtab_put(m, m.heap[entry].Children, search, value)
        ELSE IF n = 0
        THEN IF _is_last(m.heap, entry)
             THEN LET r == _new_last_leaf(m, entry, search, value)
                  IN  [heap |-> r.heap, alloc |-> r.alloc, val |-> 0]
             ELSE symtab_put(m, m.heap[entry].Next, ident, value)
        ELSE LET r == IF search # <<>>
                      THEN _entry_split_for_child(m, entry, n, search, value)
                      ELSE _entry_split_for_prefix(m, entry, n, value)
             IN  [heap |-> r.heap, alloc |-> r.alloc, val |-> 0]

RECURSIVE symtab_remove(_, _, _, _, _)
symtab_remove(m, entry, ident, parent, prev) ==
    IF entry = NULL
    THEN [heap |-> m.heap, alloc |-> m.alloc, val |-> 0, fault |-> FALSE]
    ELSE
    LET edge == m.heap[entry].Piece
        n == MatchLen(edge, ident)
        search == Drop(ident, n)
    IN  IF n = Len(edge)
        THEN IF search = <<>> /\ _is_leaf(m.heap, entry)
             THEN IF parent = NULL
                  THEN [heap |-> m.heap, alloc |-> m.alloc,
                        val |-> _get_value(m.heap, entry), fault |-> TRUE]
                  ELSE LET r == _entry_remove(m, entry, parent, prev)
                       IN  [heap |-> r.heap, alloc |-> r.alloc,
                            val |-> _get_value(m.heap, entry), fault |-> FALSE]
             ELSE symtab_remove(m, m.heap[entry].Children, search, entry, NULL)
        ELSE symtab_remove(m, m.heap[entry].Next, ident, parent, entry)

RECURSIVE symtab_get(_, _, _)
symtab_get(h, entry, ident) ==
    IF entry = NULL
    THEN 0
    ELSE
    LET edge == h[entry].Piece
        n == MatchLen(edge, ident)
        search == Drop(ident, n)
    IN  IF n = Len(edge)
        THEN IF search = <<>> /\ _is_leaf(h, entry)
             THEN _get_value(h, entry)
             ELSE symtab_get(h, h[entry].Children, search)
        ELSE symtab_get(h, h[entry].Next, ident)

\* buf is the caller's buffer and off the offset of ident in it
RECURSIVE symtab_complete(_, _, _, _)

\* a completion that, with the buffer used up at the end of a label, goes on
\* into the first child
symtab_complete_into_child(h, entry, buf, off) ==
    IF entry = NULL
    THEN [buf |-> buf, modified |-> 0]
    ELSE
    LET edge == h[entry].Piece
        ident == Drop(buf, off)
        n == MatchLen(edge, ident)
        search == Drop(ident, n)
    IN  IF n = Len(edge)
        THEN IF search = <<>>
             THEN IF _has_children(h, entry)
                  THEN [buf |-> buf \o h[h[entry].Children].Piece, modified |-> 1]
                  ELSE [buf |-> buf, modified |-> 0]
             ELSE symtab_complete(h, h[entry].Children, buf, off + n)
        ELSE IF n = 0
        THEN symtab_complete(h, h[entry].Next, buf, off)
        ELSE [buf |-> Take(buf, off + n) \o Drop(edge, n), modified |-> 1]

symtab_complete(h, entry, buf, off) ==
    IF entry = NULL
    THEN [buf |-> buf, modified |-> 0]
    ELSE
    LET edge == h[entry].Piece
        ident == Drop(buf, off)
        n == MatchLen(edge, ident)
        search == Drop(ident, n)
    IN  IF n = Len(edge)
        THEN IF search = <<>>
             THEN [buf |-> buf, modified |-> 0]
             ELSE symtab_complete(h, h[entry].Children, buf, off + n)
        ELSE IF n = 0
        THEN symtab_complete(h, h[entry].Next, buf, off)
        ELSE [buf |-> Take(buf, off + n) \o Drop(edge, n), modified |-> 1]

\* the table after symtab_get: entry is a const SymEntry * and the loop
\* assigns to its locals val, search, edge, entry and ident only
RECURSIVE symtab_get_heap(_, _, _)
symtab_get_heap(h, entry, ident) ==
    IF entry = NULL
    THEN h
    ELSE
    LET edge == h[entry].Piece
        n == MatchLen(edge, ident)
        search == Drop(ident, n)
    IN  IF n = Len(edge)
        THEN IF search = <<>> /\ _is_leaf(h, entry)
             THEN h
             ELSE symtab_get_heap(h, h[entry].Children, search)
        ELSE symtab_get_heap(h, h[entry].Next, ident)

\* a completion whose copy loop runs the wrong way (*edge++ = *search++):
\* the rest of the buffer is written over the rest of the label
RECURSIVE symtab_complete_heap_reversed(_, _, _, _)
symtab_complete_heap_reversed(h, entry, buf, off) ==
    IF entry = NULL
    THEN h
    ELSE
    LET edge == h[entry].Piece
        ident == Drop(buf, off)
        n == MatchLen(edge, ident)
        search == Drop(ident, n)
    IN  IF n = Len(edge)
        THEN IF search = <<>>
             THEN h
             ELSE symtab_complete_heap_reversed(h, h[entry].Children, buf, off + n)
        ELSE IF n = 0
        THEN symtab_complete_heap_reversed(h, h[entry].Next, buf, off)
        ELSE [h EXCEPT ![entry].Piece = Take(edge, n) \o search]

\* the table after symtab_complete: besides its locals the loop stores
\* through search only, which points into the caller's buffer
RECURSIVE symtab_complete_heap(_, _, _, _)
symtab_complete_heap(h, entry, buf, off) ==
    IF entry = NULL
    THEN h
    ELSE
    LET edge == h[entry].Piece
        ident == Drop(buf, off)
        n == MatchLen(edge, ident)
        search == Drop(ident, n)
    IN  IF n = Len(edge)
        THEN IF search = <<>>
             THEN h
             ELSE symtab_complete_heap(h, h[entry].Children, buf, off + n)
        ELSE IF n = 0
        THEN symtab_complete_heap(h, h[entry].Next, buf, off)
        ELSE h

----------------------------------------------------------------------------
(* The state machine: a single-threaded client that owns one table and     *)
(* calls the public operations on it, one call at a time.  amap is the     *)
(* abstract map the table implements, kept side by side.  last holds the   *)
(* call that has just returned, with its arguments and result, until the   *)
(* client takes the result (Return) and is ready for its next call.        *)

NoCall == [op |-> "none", key |-> <<>>, val |-> 0, ret |-> 0, buf |-> <<>>]

Init ==
    /\ heap = symtab_create.heap
    /\ alloc = symtab_create.alloc
    /\ amap = [k \in Keys |-> 0]
    /\ last = NoCall
    /\ fault = FALSE

Mem == [heap |-> heap, alloc |-> alloc]

\* put allocates at most two nodes
Put(k, v) ==
    /\ ~fault
    /\ last = NoCall
    /\ Cardinality(alloc) + 2 <= MaxNodes
    /\ LET r == symtab_put(Mem, Root, k, v)
       IN  /\ heap' = r.heap
           /\ alloc' = r.alloc
           /\ last' = [op |-> "put", key |-> k, val |-> v, ret |-> r.val, buf |-> <<>>]
    /\ amap' = [amap EXCEPT ![k] = v]
    /\ UNCHANGED fault

Remove(k) ==
    /\ ~fault
    /\ last = NoCall
    /\ LET r == symtab_remove(Mem, Root, k, NULL, NULL)
       IN  /\ heap' = r.heap
           /\ alloc' = r.alloc
           /\ last' = [op |-> "remove", key |-> k, val |-> 0, ret |-> r.val, buf |-> <<>>]
    /\ amap' = [amap EXCEPT ![k] = 0]
    /\ UNCHANGED fault

\* remove(""): the root matches and is a leaf, so _entry_remove is called with
\* parent = NULL and the call faults
RemoveEmpty ==
    /\ ~fault
    /\ last = NoCall
    /\ LET r == symtab_remove(Mem, Root, <<>>, NULL, NULL)
       IN  /\ r.fault
           /\ \E o \in _entry_remove_null_parent(Mem, Root) :
                 /\ heap' = o.heap
                 /\ alloc' = o.alloc
           /\ last' = [op |-> "remove", key |-> <<>>, val |-> 0, ret |-> r.val, buf |-> <<>>]
    /\ fault' = TRUE
    /\ UNCHANGED amap

Get(k) ==
    /\ ~fault
    /\ last = NoCall
    /\ last' = [op |-> "get", key |-> k, val |-> 0,
                ret |-> symtab_get(heap, Root, k), buf |-> <<>>]
    /\ heap' = symtab_get_heap(heap, Root, k)
    /\ UNCHANGED <<alloc, amap, fault>>

Complete(b) ==
    /\ ~fault
    /\ last = NoCall
    /\ LET r == symtab_complete(heap, Root, b, 0)
       IN  last' = [op |-> "complete", key |-> b, val |-> 0,
                    ret |-> r.modified, buf |-> r.buf]
    /\ heap' = symtab_complete_heap(heap, Root, b, 0)
    /\ UNCHANGED <<alloc, amap, fault>>

\* after destroy the handle is dead: the client makes no further call
Return ==
    /\ last # NoCall
    /\ last.op # "destroy"
    /\ last' = NoCall
    /\ UNCHANGED <<heap, alloc, amap, fault>>

PutAny == \E k \in NonEmptyKeys, v \in Values : Put(k, v)

RemoveAny == \E k \in NonEmptyKeys : Remove(k)

GetAny == \E k \in Keys : Get(k)

CompleteAny == \E b \in Keys : Complete(b)

Next == PutAny \/ RemoveAny \/ GetAny \/ CompleteAny \/ Return

Spec == Init /\ [][Next]_vars

NextAnyKey == PutAny \/ RemoveAny \/ GetAny \/ CompleteAny \/ RemoveEmpty \/ Return

SpecAnyKey == Init /\ [][NextAnyKey]_vars

----------------------------------------------------------------------------
(* The tree as symtab_destroy and symtab_print walk it *)

\* the sibling chain that starts at entry
RECURSIVE Chain(_, _)
Chain(h, entry) ==
    IF entry = NULL THEN <<>> ELSE <<entry>> \o Chain(h, h[entry].Next)

ChildrenOf(h, entry) == Chain(h, h[entry].Children)

\* entry, its later siblings, and everything below them
RECURSIVE Subtree(_, _)
Subtree(h, entry) ==
    IF entry = NULL THEN {}
    ELSE {entry} \cup Subtree(h, h[entry].Next) \cup Subtree(h, h[entry].Children)

TreeNodes(h) == {Root} \cup Subtree(h, h[Root].Children)

FirstChar(s) == IF s = <<>> THEN "" ELSE s[1]

\* the stored keys of the abstract map that start with b
Extending(b) == {k \in Keys : amap[k] # 0 /\ IsPrefix(b, k)}

\* the longest common prefix of a non-empty set of keys
LongestCommonPrefix(ks) ==
    LET common == {p \in Keys : \A k \in ks : IsPrefix(p, k)}
    IN  CHOOSE p \in common : \A q \in common : Len(q) <= Len(p)

----------------------------------------------------------------------------
(* Claims *)

\* C1: after any sequence of put (non-empty key, non-zero value) and remove
\* calls, get(k) of every non-empty key k returns what the abstract map run
\* side by side holds for k: the value of the latest put(k, .) not followed by
\* a remove(k), and 0 otherwise.  Hence a put or remove of one key never
\* changes what get returns for another key.
C1_GetRefinesMap ==
    last.op \in {"none", "put", "remove"} =>
        \A k \in NonEmptyKeys : symtab_get(heap, Root, k) = amap[k]

\* a remove of a stored key that is a proper prefix of another stored key has
\* just returned, and the longer key still holds the value 2
C1_Witness ==
    /\ last.op = "remove"
    /\ last.ret # 0
    /\ \E k \in NonEmptyKeys :
          /\ k # last.key
          /\ IsPrefix(last.key, k)
          /\ amap[k] = 2
          /\ symtab_get(heap, Root, k) = 2

C3_RemoveStored ==
    [][(last'.op = "remove" /\ amap[last'.key] # 0) =>
          /\ last'.ret = amap[last'.key]
          /\ symtab_get(heap', Root, last'.key) = 0
          /\ symtab_remove([heap |-> heap', alloc |-> alloc'],
                           Root, last'.key, NULL, NULL).val = 0]_vars

\* a remove has just returned the value of a key whose node had children
C3_Witness ==
    /\ last.op = "remove"
    /\ last.ret # 0
    /\ symtab_get(heap, Root, last.key) = 0
    /\ \E k \in Extending(last.key) : k # last.key

\* C4: get(k) returns 0 for every key string k that is not stored, the empty
\* string included, also on a table that was only created; 0 is returned
\* exactly when the key is absent.
C4_GetAbsentReturnsZero ==
    last.op = "get" => (last.ret = 0 <=> amap[last.key] = 0)

\* C5: remove(k) of a key string k that is not stored (the empty string
\* included) returns 0, does not fault, and leaves every node, label, value
\* and link as it was.
C5_RemoveAbsentIsNoOp ==
    [][(last'.op = "remove" /\ amap[last'.key] = 0) =>
          /\ last'.ret = 0
          /\ ~fault'
          /\ heap' = heap
          /\ alloc' = alloc]_vars

\* C6 as stated: every node of the tree that carries no stored value (the
\* root, whose Value is the constant of symtab_create and not a value put for
\* a key, is such a node) has no children or at least two.
C6_Original ==
    \A n \in TreeNodes(heap) :
        (n = Root \/ heap[n].Value = 0) => Len(ChildrenOf(heap, n)) # 1

\* C6 as amended: every node below the root that carries no stored value has
\* no children or at least two; the root may have exactly one child.
C6_CompactionBelowRoot ==
    \A n \in TreeNodes(heap) \ {Root} :
        heap[n].Value = 0 => Len(ChildrenOf(heap, n)) # 1

\* a remove has just returned and the removed key now diverges in the middle
\* of a label: the branching node it hung from was merged with its last child
C6_Witness ==
    /\ last.op = "remove"
    /\ last.ret # 0
    /\ \E n \in TreeNodes(heap) \ {Root} :
          LET len == MatchLen(heap[n].Piece, last.key)
          IN  /\ n \in {ChildrenOf(heap, Root)[i] :
                            i \in 1..Len(ChildrenOf(heap, Root))}
              /\ 0 < len
              /\ len < Len(heap[n].Piece)
              /\ len < Len(last.key)

\* C7: any two distinct nodes of one sibling chain have labels whose first
\* characters differ.
C7_SiblingsDiffer ==
    \A p \in TreeNodes(heap) :
        LET ch == ChildrenOf(heap, p)
        IN  \A i, j \in 1..Len(ch) :
                i # j => FirstChar(heap[ch[i]].Piece) # FirstChar(heap[ch[j]].Piece)

\* a remove has just merged a node with its only child and the node adopted
\* two children of the absorbed child
C7_Witness ==
    /\ last.op = "remove"
    /\ last.ret # 0
    /\ \E n \in TreeNodes(heap) \ {Root} :
          /\ Len(ChildrenOf(heap, n)) >= 2
          /\ Len(heap[n].Piece) >= 2
          /\ IsPrefix(last.key, heap[n].Piece)
          /\ last.key # heap[n].Piece

\* C8: for every buffer content b that is a prefix of a stored key,
\* complete(b) leaves the buffer equal to the longest common prefix of the
\* stored keys that start with b, and returns "modified" exactly when that
\* prefix is longer than b.
C8_CompleteToCommonPrefix ==
    (last.op = "complete" /\ Extending(last.key) # {}) =>
        LET lcp == LongestCommonPrefix(Extending(last.key))
        IN  /\ last.buf = lcp
            /\ (last.ret = 1 <=> Len(lcp) > Len(last.key))

\* C9: when the buffer content is not a prefix of any stored key, complete
\* returns "not modified" and leaves the buffer as it was; in every case the
\* buffer content before the call is a prefix of the buffer after it.
C9_CompleteOnlyAppends ==
    last.op = "complete" =>
        /\ IsPrefix(last.key, last.buf)
        /\ (Extending(last.key) = {} => (last.ret = 0 /\ last.buf = last.key))

\* C10: when the buffer content is exactly a stored key, complete returns
\* "not modified" and leaves the buffer as it was.
C10_CompleteStoredKey ==
    (last.op = "complete" /\ amap[last.key] # 0) =>
        (last.ret = 0 /\ last.buf = last.key)

\* complete has just returned for a buffer holding a stored key that longer
\* stored keys extend
C10_Witness ==
    /\ last.op = "complete"
    /\ amap[last.key] # 0
    /\ \E k \in Extending(last.key) : k # last.key

----------------------------------------------------------------------------
(* Further operations: put with the value 0, prefix_iter and destroy       *)

MaxResults == 2

\* assert(value != 0) at the head of symtab_put
put_precondition_none(value) == TRUE

put_precondition(value) == value # 0

\* put(k, 0): the assertion fails before the loop is entered and the process
\* is aborted; nothing has been written
PutZero(k) ==
    IF put_precondition(0)
    THEN Put(k, 0)
    ELSE /\ ~fault
         /\ last = NoCall
         /\ last' = [op |-> "put", key |-> k, val |-> 0, ret |-> 0, buf |-> <<>>]
         /\ fault' = TRUE
         /\ UNCHANGED <<heap, alloc, amap>>

\* a partial implementation: reports the first child of the root
symtab_prefix_iter_first_child(h, entry, ident, max_results) ==
    IF max_results > 0 /\ _has_children(h, entry)
    THEN [heap |-> h, buf |-> ident \o h[h[entry].Children].Piece,
          calls |-> <<ident \o h[h[entry].Children].Piece>>, ret |-> 1]
    ELSE [heap |-> h, buf |-> ident, calls |-> <<>>, ret |-> 0]

\* the stub: every parameter is cast to void and 0 is returned.  calls is the
\* sequence of keys the callback was invoked with.
symtab_prefix_iter(h, entry, ident, max_results) ==
    [heap |-> h, buf |-> ident, calls |-> <<>>, ret |-> 0]

\* last.val holds the number of callback invocations of the call
PrefixIter(p, max_results) ==
    /\ ~fault
    /\ last = NoCall
    /\ LET r == symtab_prefix_iter(heap, Root, p, max_results)
       IN  /\ heap' = r.heap
           /\ last' = [op |-> "prefix_iter", key |-> p, val |-> Len(r.calls),
                       ret |-> r.ret, buf |-> r.buf]
    /\ UNCHANGED <<alloc, amap, fault>>

\* a destroy that forgets the later siblings
RECURSIVE _symtab_destroy_no_siblings(_, _)
_symtab_destroy_no_siblings(h, tab) ==
    IF tab = NULL
    THEN <<>>
    ELSE _symtab_destroy_no_siblings(h, h[tab].Children)
             \o <<[entry |-> tab, piece |-> TRUE]>>

\* the free() calls of _symtab_destroy(tab), in order; piece tells whether the
\* label is freed with the entry (_entry_free) or the entry alone
RECURSIVE _symtab_destroy(_, _)
_symtab_destroy(h, tab) ==
    IF tab = NULL
    THEN <<>>
    ELSE _symtab_destroy(h, h[tab].Next)
             \o _symtab_destroy(h, h[tab].Children)
             \o <<[entry |-> tab, piece |-> TRUE]>>

symtab_destroy(h, tab) ==
    _symtab_destroy(h, h[tab].Children) \o <<[entry |-> tab, piece |-> FALSE]>>

\* the memory after the free() calls of log
RECURSIVE FreeAll(_, _)
FreeAll(m, log) ==
    IF log = <<>> THEN m ELSE FreeAll(_entry_free(m, Head(log).entry), Tail(log))

Destroy ==
    /\ ~fault
    /\ last = NoCall
    /\ LET r == FreeAll(Mem, symtab_destroy(heap, Root))
       IN  /\ heap' = r.heap
           /\ alloc' = r.alloc
    /\ last' = [op |-> "destroy", key |-> <<>>, val |-> 0, ret |-> 0, buf |-> <<>>]
    /\ UNCHANGED <<amap, fault>>

PutZeroAny == \E k \in NonEmptyKeys : PutZero(k)

PrefixIterAny == \E p \in Keys, max_results \in 0..MaxResults : PrefixIter(p, max_results)

\* the calls that change the table, and its destruction
NextTree == PutAny \/ RemoveAny \/ Destroy \/ Return

SpecTree == Init /\ [][NextTree]_vars

\* the changing calls and put with the value 0
NextPutZero == PutAny \/ RemoveAny \/ PutZeroAny \/ Return

SpecPutZero == Init /\ [][NextPutZero]_vars

\* the changing calls and prefix_iter
NextPrefixIter == PutAny \/ RemoveAny \/ PrefixIterAny \/ Return

SpecPrefixIter == Init /\ [][NextPrefixIter]_vars

\* C11: put(k, 0) is rejected before anything is changed: the call ends in
\* the error outcome and every node, label, value and link is as before; so
\* after any put every stored key is found by get with a non-zero value.
C11_PutZeroRejected ==
    [][last'.op = "put" =>
          /\ last'.val = 0 => (fault' /\ heap' = heap /\ alloc' = alloc)
          /\ \A k \in NonEmptyKeys :
                amap'[k] # 0 => symtab_get(heap', Root, k) # 0]_vars

\* put(k, 0) has just been rejected on a table that stores k
C11_Witness ==
    /\ last.op = "put"
    /\ last.val = 0
    /\ fault
    /\ amap[last.key] # 0
    /\ symtab_get(heap, Root, last.key) = amap[last.key]

\* C12: create returns a table whose root has label "", carries no value and
\* has no children; in every state reached by put/remove with non-empty keys
\* the root still has label "" and carries no value.
C12_RootEmptyNoValue ==
    Root \in alloc =>
        /\ heap[Root].Piece = <<>>
        /\ ~_is_leaf(heap, Root)
        /\ (last = NoCall /\ amap = [k \in Keys |-> 0]
               => ~_has_children(heap, Root))

\* C13: prefix_iter, in any state and for any prefix and max_results, returns
\* 0, never invokes the callback and leaves the table and the prefix buffer
\* as they were.
C13_PrefixIterStub ==
    [][last'.op = "prefix_iter" =>
          /\ last'.ret = 0
          /\ last'.val = 0
          /\ last'.buf = last'.key
          /\ heap' = heap
          /\ alloc' = alloc]_vars

\* prefix_iter has just returned for a prefix that two stored keys share
C13_Witness ==
    /\ last.op = "prefix_iter"
    /\ Cardinality(Extending(last.key)) >= 2

\* the links that point to n: a parent's Children or a previous sibling's Next
LinksTo(h, al, n) ==
    {<<p, "Children">> : p \in {q \in al : h[q].Children = n}}
        \cup {<<p, "Next">> : p \in {q \in al : h[q].Next = n}}

OwnedTree ==
    /\ Root \in alloc
    /\ LinksTo(heap, alloc, Root) = {}
    /\ heap[Root].Next = NULL
    /\ \A p \in alloc : /\ heap[p].Next \in alloc \cup {NULL}
                        /\ heap[p].Children \in alloc \cup {NULL}
    /\ \A n \in alloc \ {Root} : Cardinality(LinksTo(heap, alloc, n)) = 1
    /\ TreeNodes(heap) = alloc

\* no block outside the allocated ones holds anything, none was freed twice
FreedClean == \A n \in Nodes \ alloc : heap[n] = SymEntry

DestroyReleasesAll ==
    last'.op = "destroy" =>
        LET log == symtab_destroy(heap, Root)
        IN  /\ {log[i].entry : i \in 1..Len(log)} = alloc
            /\ Len(log) = Cardinality(alloc)
            /\ \A i \in 1..Len(log) : log[i].piece = (log[i].entry # Root)
            /\ alloc' = {}
            /\ \A n \in Nodes : heap'[n] = SymEntry

\* C14: after any sequence of put/remove calls every allocated node other
\* than the root is reachable from the root and is the target of exactly one
\* link, every link points to an allocated node, and no block was freed
\* twice; destroy frees every allocated node exactly once and does not free
\* the root's label.
C14_OwnershipTree ==
    /\ [](last.op # "destroy" => OwnedTree /\ FreedClean)
    /\ [][DestroyReleasesAll]_vars

\* destroy has just released a table that held three keys in four nodes
\* below the root
C14_Witness ==
    /\ last.op = "destroy"
    /\ alloc = {}
    /\ Cardinality({k \in Keys : amap[k] # 0}) = 3

----------------------------------------------------------------------------
(* A wider alphabet with shorter keys: nodes with three children           *)

MaxWideLen == 2

WideAlphabet == {"a", "b", "c"}

RECURSIVE WideStringsOfLen(_)
WideStringsOfLen(n) ==
    IF n = 0 THEN {<<>>}
    ELSE {Append(s, c) : s \in WideStringsOfLen(n - 1), c \in WideAlphabet}

WideKeys == UNION {WideStringsOfLen(n) : n \in 1..MaxWideLen}

InitWide ==
    /\ heap = symtab_create.heap
    /\ alloc = symtab_create.alloc
    /\ amap = [k \in WideKeys |-> 0]
    /\ last = NoCall
    /\ fault = FALSE

PutWide == \E k \in WideKeys, v \in Values : Put(k, v)

RemoveWide == \E k \in WideKeys : Remove(k)

NextWide == PutWide \/ RemoveWide \/ Return

SpecWide == InitWide /\ [][NextWide]_vars

\* the entry, parent and prev with which symtab_remove calls _entry_remove
\* for ident (entry = NULL: the loop ends without the call)
RECURSIVE RemoveTarget(_, _, _, _, _)
RemoveTarget(h, entry, ident, parent, prev) ==
    IF entry = NULL
    THEN [entry |-> NULL, parent |-> NULL, prev |-> NULL]
    ELSE
    LET edge == h[entry].Piece
        n == MatchLen(edge, ident)
        search == Drop(ident, n)
    IN  IF n = Len(edge)
        THEN IF search = <<>> /\ _is_leaf(h, entry)
             THEN [entry |-> entry, parent |-> parent, prev |-> prev]
             ELSE RemoveTarget(h, h[entry].Children, search, entry, NULL)
        ELSE RemoveTarget(h, h[entry].Next, ident, parent, entry)

Without(seq, x) == SelectSeq(seq, LAMBDA y : y # x)

\* the record of parent after _entry_merge(parent, child)
Merged(h, parent, child) ==
    [Next |-> h[parent].Next, Children |-> h[child].Children,
     Piece |-> h[parent].Piece \o h[child].Piece, Value |-> h[child].Value]

\* the keys other than the removed one are found with their values
OthersKept ==
    \A k \in DOMAIN amap :
        k # last'.key => symtab_get(heap', Root, k) = amap[k]

\* remove hit a terminal node with children
RemoveWithChildren(t) ==
    LET child == heap[t.entry].Children
    IN  /\ t.entry \in alloc'
        /\ ChildrenOf(heap', t.parent) = ChildrenOf(heap, t.parent)
        /\ IF _is_last(heap, child)
           THEN /\ heap' = [heap EXCEPT ![t.entry] = Merged(heap, t.entry, child),
                                        ![child] = SymEntry]
                /\ alloc' = alloc \ {child}
           ELSE /\ heap' = [heap EXCEPT ![t.entry].Value = 0]
                /\ alloc' = alloc
        /\ \A k \in DOMAIN amap :
              (amap[k] # 0 /\ k # last'.key /\ IsPrefix(last'.key, k))
                  => symtab_get(heap', Root, k) = amap[k]

\* remove hit a terminal node without children: it is gone and the chain of
\* its parent is the old one without it
RemoveChildless(t) ==
    /\ t.entry \notin alloc'
    /\ t.parent \in alloc'
    /\ ChildrenOf(heap', t.parent) = Without(ChildrenOf(heap, t.parent), t.entry)
    /\ \A n \in alloc \ {t.entry} : n \in TreeNodes(heap')

\* as RemoveChildless, but with the merge of lines 160-163: a parent without
\* a value left with one child takes over that child's label, value and
\* children, and the child is freed
RemoveChildlessOrMerge(t) ==
    LET rest == Without(ChildrenOf(heap, t.parent), t.entry)
    IN  /\ t.entry \notin alloc'
        /\ t.parent \in alloc'
        /\ IF ~_is_leaf(heap, t.parent) /\ Len(rest) = 1
           THEN /\ heap'[t.parent] = Merged(heap, t.parent, rest[1])
                /\ alloc' = alloc \ {t.entry, rest[1]}
                /\ TreeNodes(heap') = alloc'
           ELSE /\ ChildrenOf(heap', t.parent) = rest
                /\ alloc' = alloc \ {t.entry}
                /\ \A n \in alloc' : n \in TreeNodes(heap')
        /\ OthersKept

C15_Original ==
    [][(last'.op = "remove" /\ last'.ret # 0) =>
          LET t == RemoveTarget(heap, Root, last'.key, NULL, NULL)
          IN  IF _has_children(heap, t.entry)
              THEN RemoveWithChildren(t)
              ELSE RemoveChildless(t)]_vars

\* C15: a remove that hits a terminal node with children leaves the node
\* linked where it was, clears its value and merges it with its child exactly
\* when it has one child, and the stored keys that extend the key keep their
\* values; a remove that hits a terminal node without children unlinks and
\* frees it, and its former siblings stay in their order, unless the parent
\* carries no value and one sibling is left: then that sibling is merged into
\* the parent.  All other stored keys keep their values.
C15_RemoveTerminal ==
    [][(last'.op = "remove" /\ last'.ret # 0) =>
          LET t == RemoveTarget(heap, Root, last'.key, NULL, NULL)
          IN  IF _has_children(heap, t.entry)
              THEN RemoveWithChildren(t)
              ELSE RemoveChildlessOrMerge(t)]_vars

\* the middle one of three siblings has just been removed
C15_Witness ==
    /\ last.op = "remove"
    /\ last.ret # 0
    /\ Len(ChildrenOf(heap, Root)) = 2
    /\ \E a, b, c \in DOMAIN amap :
          /\ last.key = b
          /\ amap[a] # 0 /\ amap[c] # 0
          /\ symtab_get(heap, Root, a) # 0 /\ symtab_get(heap, Root, c) # 0
          /\ FirstChar(a) # FirstChar(b) /\ FirstChar(b) # FirstChar(c)
          /\ FirstChar(a) # FirstChar(c)
          /\ heap[heap[Root].Children].Piece = Take(a, Len(heap[heap[Root].Children].Piece))
          /\ heap[heap[heap[Root].Children].Next].Piece
                = Take(c, Len(heap[heap[heap[Root].Children].Next].Piece))

----------------------------------------------------------------------------

\* the nodes symtab_get visits, sibling by sibling and level by level, until
\* it returns
RECURSIVE PathOf(_, _, _)
PathOf(h, entry, ident) ==
    IF entry = NULL
    THEN {}
    ELSE
    LET edge == h[entry].Piece
        n == MatchLen(edge, ident)
        search == Drop(ident, n)
    IN  IF n = Len(edge)
        THEN IF search = <<>> /\ _is_leaf(h, entry)
             THEN {entry}
             ELSE {entry} \cup PathOf(h, h[entry].Children, search)
        ELSE PathOf(h, h[entry].Next, ident)

\* the number of _entry_merge calls of the remove step: every merge frees one
\* node, and so does the unlinking of an entry without children
MergesOfStep ==
    LET t == RemoveTarget(heap, Root, last'.key, NULL, NULL)
    IN  Cardinality(alloc \ alloc')
            - (IF _has_children(heap, t.entry) THEN 0 ELSE 1)

\* C16: a remove call performs at most one merge (the merge of the removed
\* node with its only child and the merge of the parent with its only
\* remaining child never both happen), and after it the compaction invariant
\* holds without any further merge.
C16_OneMergePerRemove ==
    [][(last'.op = "remove" /\ last'.ret # 0) =>
          /\ MergesOfStep \in {0, 1}
          /\ C6_CompactionBelowRoot']_vars

\* a key whose node had one child has just been removed and the merged node
\* is the only child of its parent
C16_Witness ==
    /\ last.op = "remove"
    /\ last.ret # 0
    /\ Cardinality(Extending(last.key)) = 1
    /\ Cardinality(alloc) = 2
    /\ Len(ChildrenOf(heap, Root)) = 1

----------------------------------------------------------------------------

\* C17: after any sequence of put/remove calls with non-empty keys every node
\* below the root has a non-empty label and the root's label is "".
C17_LabelsNonEmpty ==
    last.op # "destroy" =>
        /\ heap[Root].Piece = <<>>
        /\ \A n \in TreeNodes(heap) \ {Root} : Len(heap[n].Piece) > 0

\* a put has just split a label: a node without a value has two children,
\* and some label is longer than one character
C17_Witness ==
    /\ last.op = "put"
    /\ \E n \in TreeNodes(heap) \ {Root} :
          /\ heap[n].Value = 0
          /\ Len(ChildrenOf(heap, n)) = 2
    /\ \E n \in TreeNodes(heap) \ {Root} : Len(heap[n].Piece) > 1

\* C19: after any sequence of put/remove calls every node below the root
\* without children carries a non-zero value, so every node below the root
\* lies on the path of a stored key.
C19_NoDeadBranch ==
    last.op # "destroy" =>
        \A n \in TreeNodes(heap) \ {Root} :
            /\ ~_has_children(heap, n) => _is_leaf(heap, n)
            /\ \E k \in NonEmptyKeys :
                  /\ amap[k] # 0
                  /\ n \in PathOf(heap, Root, k)

\* a key without stored extensions has just been removed below a stored
\* prefix of it, which is now a node without children
C19_Witness ==
    /\ last.op = "remove"
    /\ last.ret # 0
    /\ Extending(last.key) = {}
    /\ \E k \in NonEmptyKeys :
          /\ amap[k] # 0
          /\ IsPrefix(k, last.key)
          /\ Extending(k) = {k}

----------------------------------------------------------------------------

\* C18: get and complete do not modify the table: after either call every
\* node, label, value and link and the set of allocated nodes are as before
\* (complete changes the caller's buffer only).
C18_LookupsKeepTable ==
    [][last'.op \in {"get", "complete"} =>
          /\ heap' = heap
          /\ alloc' = alloc]_vars

\* complete has just rewritten its buffer on a table that holds keys
C18_Witness ==
    /\ last.op = "complete"
    /\ last.ret = 1
    /\ last.buf # last.key
    /\ Cardinality(alloc) >= 3

----------------------------------------------------------------------------
(* The loops of the four calls, one iteration at a time                    *)

Stop(ident) == [entry |-> NULL, ident |-> ident]

\* the values of entry and ident after one iteration of the while(entry)
\* loop of op
Advance(op, h, entry, ident) ==
    LET edge == h[entry].Piece
        n == MatchLen(edge, ident)
        search == Drop(ident, n)
    IN  IF op = "put"
        THEN IF n = Len(edge)
             THEN IF search = <<>> \/ ~_has_children(h, entry)
                  THEN Stop(ident)
                  ELSE [entry |-> h[entry].Children, ident |-> search]
             ELSE IF n = 0 /\ ~_is_last(h, entry)
                  THEN [entry |-> h[entry].Next, ident |-> ident]
                  ELSE Stop(ident)
        ELSE IF op = "complete"
        THEN IF n = Len(edge)
             THEN IF search = <<>>
                  THEN Stop(ident)
                  ELSE [entry |-> h[entry].Children, ident |-> search]
             ELSE IF n = 0
                  THEN [entry |-> h[entry].Next, ident |-> ident]
                  ELSE Stop(ident)
        ELSE \* "get" and "remove"
             IF n = Len(edge)
             THEN IF search = <<>> /\ _is_leaf(h, entry)
                  THEN Stop(ident)
                  ELSE [entry |-> h[entry].Children, ident |-> search]
             ELSE [entry |-> h[entry].Next, ident |-> ident]

\* the number of iterations of the loop of op, counted up to fuel + 1
RECURSIVE Iterations(_, _, _, _, _)
Iterations(op, h, entry, ident, fuel) ==
    IF entry = NULL THEN 0
    ELSE IF fuel = 0 THEN 1
    ELSE LET a == Advance(op, h, entry, ident)
         IN  1 + Iterations(op, h, a.entry, a.ident, fuel - 1)

\* an iteration stops, moves to the next sibling with the key as it is, or
\* descends to the children with a shorter rest of the key (below the root)
Progresses(h, entry, ident, a) ==
    \/ a.entry = NULL
    \/ a.entry = h[entry].Next /\ a.ident = ident
    \/ /\ a.entry = h[entry].Children
       /\ entry = Root \/ Len(a.ident) < Len(ident)

RECURSIVE AllProgress(_, _, _, _, _)
AllProgress(op, h, entry, ident, fuel) ==
    \/ entry = NULL
    \/ fuel = 0
    \/ LET a == Advance(op, h, entry, ident)
       IN  /\ Progresses(h, entry, ident, a)
           /\ AllProgress(op, h, a.entry, a.ident, fuel - 1)

\* the nodes reached from those of S over at most fuel further links
RECURSIVE Reach(_, _, _)
Reach(h, S, fuel) ==
    IF fuel = 0 THEN S
    ELSE LET succ == {h[n].Next : n \in S} \cup {h[n].Children : n \in S}
         IN  Reach(h, S \cup (succ \ {NULL}), fuel - 1)

Acyclic(h, al) ==
    \A n \in al :
        n \notin Reach(h, {h[n].Next, h[n].Children} \ {NULL}, Cardinality(al))

Calls == {"put", "get", "remove", "complete"}

\* C20: in every state in which a call can start, the loop of put, get,
\* remove and complete ends after at most as many iterations as there are
\* nodes, for every key; every iteration stops, moves to the next sibling or
\* descends after consuming a character below the root; and no node reaches
\* itself over Next and Children links.
C20_CallsTerminate ==
    last = NoCall =>
        /\ Acyclic(heap, alloc)
        /\ \A op \in Calls, k \in Keys :
              /\ Iterations(op, heap, Root, k, Cardinality(alloc))
                    <= Cardinality(alloc)
              /\ AllProgress(op, heap, Root, k, Cardinality(alloc))

\* a table with four nodes below the root in which a lookup visits four
\* nodes
C20_Witness ==
    /\ last = NoCall
    /\ Cardinality(alloc) = 5
    /\ \E k \in Keys : Iterations("get", heap, Root, k, Cardinality(alloc)) >= 4

====
